---- MODULE Spec2Model ----
(***************************************************************************)
(* Model of the three BLE command-line programs of Venus_OS_python:        *)
(*   list_ble_devices.py        (prog = "scan")                            *)
(*   connect_ble_device.py      (prog = "explore")                         *)
(*   write_ble_characteristic.py (prog = "write")                          *)
(* Strings are sequences of Unicode code points.  The bleak library is    *)
(* the environment: every call into it (discover, connect, read, write,    *)
(* disconnect) is a suspension point whose outcome is chosen               *)
(* nondeterministically among: normal return, an Exception raised by the   *)
(* library, or a user interrupt.                                           *)
(* User interrupts (asyncio.run of Python 3.11): the first SIGINT cancels  *)
(* the main task, so a CancelledError, which is not an Exception, is       *)
(* raised at the await the task is suspended in, or KeyboardInterrupt is   *)
(* raised by asyncio.run when main returns without another await.  A       *)
(* second SIGINT raises KeyboardInterrupt at once, in synchronous code     *)
(* too: every step can be cut short between any two of its effects, and   *)
(* the block of async with can be left by a KeyboardInterrupt raised on    *)
(* entry of __aexit__, before disconnect is called.  Once asyncio.run is   *)
(* over, a SIGINT inside the except clauses at the bottom of a script is   *)
(* an uncaught KeyboardInterrupt.                                          *)
(* Stdout is open and encodes UTF-8; its error handler is the             *)
(* environment's choice as well: a print of an argument that holds a lone  *)
(* surrogate either succeeds (surrogateescape) or raises                   *)
(* UnicodeEncodeError (strict).                                            *)
(***************************************************************************)
EXTENDS Integers, Sequences, FiniteSets

VARIABLES
    prog,             \* which program runs: "scan", "explore" or "write"
    pc,               \* position of the single flow of control
    mac_address,      \* args.mac_address
    show_descriptors, \* args.descriptors
    char_uuid,        \* args.char_uuid
    value_str,        \* args.value
    hex_mode,         \* args.hex
    has_arg,          \* len(sys.argv) > 1 in the scan program
    argv1,            \* sys.argv[1] in the scan program
    device,           \* the GATT table the library holds for the peer
    connectCalls,     \* number of BleakClient.connect invocations
    connectArg,       \* address the BleakClient was constructed with
    connectOutcome,   \* "none", "ok", "raised" or "interrupted"
    is_connected,     \* client.is_connected after connect
    disconnectCalls,  \* number of BleakClient.disconnect invocations
    disconnectRaised, \* disconnect raised an Exception
    pending,          \* how the async-with body was left: "return True",
                      \* "return False", "raise" (an Exception) or "interrupt"
    result,           \* return value of connect_and_explore / write_characteristic
    si, ci, di,       \* loop positions of explore_device_services
    report,           \* items printed by explore_device_services, in order
    lib,              \* outcomes of the library reads, in order
    enumFault,        \* a library access other than a read raised an Exception
    enumAborted,      \* the outer except of explore_device_services ran
    value_bytes,      \* parse_value's return value
    writeCalls,       \* number of write_gatt_char invocations
    writeArgs,        \* arguments of the write_gatt_char invocation
    writeOutcome,     \* "none", "ok", "raised" or "interrupted"
    scan_time,        \* scan_time of list_ble_devices.main
    warned,           \* "Using default scan time" was printed
    discoverCalls,    \* number of BleakScanner.discover invocations
    discoverTimeout,  \* timeout handed to BleakScanner.discover
    scanRaised,       \* discover raised an Exception
    devices,          \* return value of scan_ble_devices
    out,              \* messages printed, in order
    exit              \* "running", or how the process ended

vars == <<prog, pc, mac_address, show_descriptors, char_uuid, value_str, hex_mode, has_arg,
          argv1, device, connectCalls, connectArg, connectOutcome, is_connected,
          disconnectCalls, disconnectRaised, pending, result, si, ci, di,
          report, lib, enumFault, enumAborted, value_bytes, writeCalls, writeArgs,
          writeOutcome,
          scan_time, warned, discoverCalls, discoverTimeout, scanRaised,
          devices, out, exit>>

clientVars == <<connectCalls, connectArg, connectOutcome, is_connected,
                disconnectCalls, disconnectRaised, pending, result>>
enumVars   == <<si, ci, di, report, lib, enumFault, enumAborted>>
writeVars  == <<value_bytes, writeCalls, writeArgs, writeOutcome>>
scanVars   == <<scan_time, warned, discoverCalls, discoverTimeout, scanRaised,
                devices>>
inputVars  == <<prog, mac_address, show_descriptors, char_uuid, value_str, hex_mode,
                has_arg, argv1, device>>

----------------------------------------------------------------------------
(* Bounds of the model *)

\* longest run of address characters (separators not counted)
MaxAddrChars == 13
\* longest VALUE argument of the write program
MaxValueLen == 3
\* longest scan-time argument
MaxArgLen == 3
\* services + characteristics + descriptors of the peer's GATT table
MaxNodes == 3
\* most devices a scan returns
MaxDevices == 1

(* Program constants *)
MacLen == 12
\* most digits int() converts (sys.int_info.default_max_str_digits)
MaxStrDigits == 4300
DefaultScanTime == 10

----------------------------------------------------------------------------
(* Strings: a string is the sequence of its characters' code points *)

RECURSIVE BoundedSeq(_, _)
BoundedSeq(S, n) ==
    IF n = 0 THEN {<<>>}
    ELSE LET shorter == BoundedSeq(S, n - 1)
         IN  shorter \cup {Append(s, x) : s \in {t \in shorter : Len(t) = n - 1}, x \in S}

Repeat(ch, n) == [i \in 1..n |-> ch]

RECURSIVE Grouped(_, _, _, _)
Grouped(n, ch, sep, g) ==
    IF n <= g THEN Repeat(ch, n)
    ELSE Repeat(ch, g) \o <<sep>> \o Grouped(n - g, ch, sep, g)

\* the ASCII characters U+0020 to U+005F, and the lower-case letters from U+0061
AsciiTable ==
    <<" ", "!", "\"", "#", "$", "%", "&", "'", "(", ")", "*", "+", ",", "-", ".", "/",
      "0", "1", "2", "3", "4", "5", "6", "7", "8", "9", ":", ";", "<", "=", ">", "?",
      "@", "A", "B", "C", "D", "E", "F", "G", "H", "I", "J", "K", "L", "M", "N", "O",
      "P", "Q", "R", "S", "T", "U", "V", "W", "X", "Y", "Z", "[", "\\", "]", "^", "_">>

LowerTable ==
    <<"a", "b", "c", "d", "e", "f", "g", "h", "i", "j", "k", "l", "m",
      "n", "o", "p", "q", "r", "s", "t", "u", "v", "w", "x", "y", "z">>

\* code point of such a character, and of each character of a text
Code(ch) ==
    IF \E i \in 1..Len(LowerTable) : LowerTable[i] = ch
    THEN 96 + CHOOSE i \in 1..Len(LowerTable) : LowerTable[i] = ch
    ELSE 31 + CHOOSE i \in 1..Len(AsciiTable) : AsciiTable[i] = ch

Str(chars) == [i \in 1..Len(chars) |-> Code(chars[i])]

Colon      == Code(":")
Dash       == Code("-")
Underscore == Code("_")
Plus       == Code("+")

\* str.replace(old, "") for a one-character old
Replace(s, old) == SelectSeq(s, LAMBDA c : c # old)

----------------------------------------------------------------------------
(* MAC address check of both main functions *)

\* stripping that forgets the '-' separator
StrippedColonsOnly(addr) == Replace(addr, Colon)

StrippedAddress(addr) == Replace(Replace(addr, Colon), Dash)

ValidAddress(addr) == Len(StrippedAddress(addr)) = MacLen

----------------------------------------------------------------------------
(* bytes.fromhex, str.encode and bytes.hex *)

\* value of an ASCII hex digit, -1 for any other character
HexValue(c) ==
    IF c \in 48..57 THEN c - 48
    ELSE IF c \in 97..102 THEN c - 87
    ELSE IF c \in 65..70 THEN c - 55
    ELSE -1

IsHexDigit(c) == HexValue(c) >= 0

\* the characters bytes.fromhex skips: tab, LF, VT, FF, CR and space
HexWhitespace == 9..13 \cup {32}

\* fromhex with the two digits of a byte in the wrong order
RECURSIVE FromHexSwappedNibbles(_)
FromHexSwappedNibbles(s) ==
    IF s = <<>> THEN [ok |-> TRUE, bytes |-> <<>>]
    ELSE IF Head(s) \in HexWhitespace THEN FromHexSwappedNibbles(Tail(s))
    ELSE IF Len(s) >= 2 /\ IsHexDigit(s[1]) /\ IsHexDigit(s[2])
         THEN LET rest == FromHexSwappedNibbles(SubSeq(s, 3, Len(s)))
              IN  [ok    |-> rest.ok,
                   bytes |-> IF rest.ok
                             THEN <<16 * HexValue(s[2]) + HexValue(s[1])>> \o rest.bytes
                             ELSE <<>>]
         ELSE [ok |-> FALSE, bytes |-> <<>>]

\* bytes.fromhex: whitespace is skipped before each pair of digits and at the
\* end; the two digits of a pair must be adjacent.  ok = FALSE is ValueError.
RECURSIVE FromHex(_)
FromHex(s) ==
    IF s = <<>> THEN [ok |-> TRUE, bytes |-> <<>>]
    ELSE IF Head(s) \in HexWhitespace THEN FromHex(Tail(s))
    ELSE IF Len(s) >= 2 /\ IsHexDigit(s[1]) /\ IsHexDigit(s[2])
         THEN LET rest == FromHex(SubSeq(s, 3, Len(s)))
              IN  [ok    |-> rest.ok,
                   bytes |-> IF rest.ok
                             THEN <<16 * HexValue(s[1]) + HexValue(s[2])>> \o rest.bytes
                             ELSE <<>>]
         ELSE [ok |-> FALSE, bytes |-> <<>>]

\* bytes.hex
HexChar(n) == IF n < 10 THEN 48 + n ELSE 87 + n

RECURSIVE HexEncode(_)
HexEncode(b) ==
    IF b = <<>> THEN <<>>
    ELSE <<HexChar(Head(b) \div 16), HexChar(Head(b) % 16)>> \o HexEncode(Tail(b))

\* ASCII letter case
Lower(c) == IF c \in 65..90 THEN c + 32 ELSE c

LowerStr(s) == [i \in 1..Len(s) |-> Lower(s[i])]

\* a lone surrogate (an undecodable byte of the command line) cannot be encoded
IsSurrogate(c) == c \in 55296..57343

\* the UTF-8 bytes of one character
Utf8Char(c) ==
    IF c < 128 THEN <<c>>
    ELSE IF c < 2048 THEN <<192 + (c \div 64), 128 + (c % 64)>>
    ELSE IF c < 65536
         THEN <<224 + (c \div 4096), 128 + ((c \div 64) % 64), 128 + (c % 64)>>
    ELSE <<240 + (c \div 262144), 128 + ((c \div 4096) % 64),
           128 + ((c \div 64) % 64), 128 + (c % 64)>>

RECURSIVE Utf8Bytes(_)
Utf8Bytes(s) == IF s = <<>> THEN <<>> ELSE Utf8Char(Head(s)) \o Utf8Bytes(Tail(s))

\* str.encode("utf-8"): ok = FALSE is UnicodeEncodeError
Utf8(s) ==
    IF \E i \in 1..Len(s) : IsSurrogate(s[i])
    THEN [ok |-> FALSE, bytes |-> <<>>]
    ELSE [ok |-> TRUE, bytes |-> Utf8Bytes(s)]

\* parse_value that ignores --hex and always encodes the text
parse_value_IgnoringHex(s, hex) ==
    [outcome |-> IF Utf8(s).ok THEN "bytes" ELSE "raise", bytes |-> Utf8(s).bytes]

\* parse_value: the bytes; "exit" is "Invalid hex string" + sys.exit(1);
\* "raise" is the UnicodeEncodeError that leaves parse_value
parse_value(s, hex) ==
    IF hex
    THEN [outcome |-> IF FromHex(s).ok THEN "bytes" ELSE "exit", bytes |-> FromHex(s).bytes]
    ELSE [outcome |-> IF Utf8(s).ok THEN "bytes" ELSE "raise", bytes |-> Utf8(s).bytes]

----------------------------------------------------------------------------
(* int(sys.argv[1]) and the scan-time fallback *)

\* the characters int() strips at both ends: the Unicode whitespace
\* characters other than U+001C to U+001F
IntWhitespace ==
    9..13 \cup {32, 133, 160, 5760} \cup 8192..8202
    \cup {8232, 8233, 8239, 8287, 12288}

\* the digit zero of every Unicode decimal-digit block (Unicode 14); the
\* digits 0 to 9 of a block are consecutive
DigitZeros ==
    {48, 1632, 1776, 1984, 2406, 2534, 2662, 2790, 2918, 3046, 3174, 3302,
     3430, 3558, 3664, 3792, 3872, 4160, 4240, 6112, 6160, 6470, 6608, 6784,
     6800, 6992, 7088, 7232, 7248, 42528, 43216, 43264, 43472, 43504, 43600,
     44016, 65296, 66720, 68912, 69734, 69872, 69942, 70096, 70384, 70736,
     70864, 71248, 71360, 71472, 71904, 72016, 72784, 73040, 73120, 92768,
     92864, 93008, 120782, 120792, 120802, 120812, 120822, 123200, 123632,
     125264, 130032}

IsDigit(c) == \E z \in DigitZeros : c \in z..(z + 9)

DigitValue(c) == c - (CHOOSE z \in DigitZeros : c \in z..(z + 9))

RECURSIVE LStrip(_)
LStrip(s) == IF s # <<>> /\ Head(s) \in IntWhitespace THEN LStrip(Tail(s)) ELSE s

RECURSIVE RStrip(_)
RStrip(s) ==
    IF s # <<>> /\ s[Len(s)] \in IntWhitespace THEN RStrip(SubSeq(s, 1, Len(s) - 1)) ELSE s

Strip(s) == RStrip(LStrip(s))

\* digits with single underscores between them
DigitString(s) ==
    /\ s # <<>>
    /\ \A i \in 1..Len(s) : IsDigit(s[i]) \/ s[i] = Underscore
    /\ s[1] # Underscore /\ s[Len(s)] # Underscore
    /\ \A i \in 1..(Len(s) - 1) : ~(s[i] = Underscore /\ s[i + 1] = Underscore)

RECURSIVE DigitsValue(_, _)
DigitsValue(s, acc) ==
    IF s = <<>> THEN acc
    ELSE IF Head(s) = Underscore THEN DigitsValue(Tail(s), acc)
    ELSE DigitsValue(Tail(s), 10 * acc + DigitValue(Head(s)))

\* int(s): ok = FALSE is ValueError, raised also for a well-formed literal
\* of more than MaxStrDigits digits (leading zeros counted, underscores not)
ParseInt(s) ==
    LET t    == Strip(s)
        neg  == t # <<>> /\ t[1] = Dash
        body == IF t # <<>> /\ t[1] \in {Plus, Dash} THEN Tail(t) ELSE t
    IN  IF /\ DigitString(body)
           /\ Len(SelectSeq(body, IsDigit)) <= MaxStrDigits
        THEN [ok |-> TRUE, val |-> IF neg THEN -DigitsValue(body, 0) ELSE DigitsValue(body, 0)]
        ELSE [ok |-> FALSE, val |-> 0]

\* the positivity test written as scan_time < 0
ScanTimeAcceptedZero(present, arg) == present /\ ParseInt(arg).ok /\ ParseInt(arg).val >= 0

\* lines 86-95 of list_ble_devices.main: the scan time and whether the
\* fallback warning is printed
ScanTimeAccepted(present, arg) == present /\ ParseInt(arg).ok /\ ParseInt(arg).val > 0

ScanTime(present, arg) ==
    IF ScanTimeAccepted(present, arg) THEN ParseInt(arg).val ELSE DefaultScanTime

ScanWarning(present, arg) == present /\ ~ScanTimeAccepted(present, arg)

----------------------------------------------------------------------------
(* Inputs *)

\* the documented default of the explore program, and a mixed-separator form
DefaultMac == Str(<<"A", "5", ":", "C", "2", ":", "3", "7", ":", "5", "B", ":",
                    "1", "3", ":", "B", "A">>)
MixedMac   == Str(<<"A", "5", "-", "C", "2", ":", "3", "7", "-", "5", "B", ":",
                    "1", "3", "-", "B", "A">>)

\* the empty address and runs of MacLen - 2 to MaxAddrChars characters: hex
\* digits ("A") bare or in pairs joined by ':', letters that are no hex
\* digits ("G") in pairs joined by '-'; strings made of separators only;
\* and an address of MacLen characters that ends in the lone surrogate U+DCFF
AddressInputs ==
    {DefaultMac, MixedMac, Repeat(Colon, MacLen), Repeat(Dash, MacLen + 1),
     Append(Repeat(Code("A"), MacLen - 1), 56575)}
    \cup UNION {{Repeat(Code("A"), n),
                 Grouped(n, Code("A"), Colon, 2), Grouped(n, Code("G"), Dash, 2)}
                : n \in {0} \cup (MacLen - 2)..MaxAddrChars}

\* two hex digits, one of them an upper-case letter, a letter that is no hex
\* digit, space, tab, and the lone surrogate U+DCFF
ValueAlphabet == {Code("4"), Code("F"), Code("g"), Code(" ")} \cup {9, 56575}
\* two byte pairs with whitespace between and around them, and a second
\* pair cut short
PairedValues ==
    {Str(<<"4", "F", " ", "F", "4">>),
     <<Code("4"), Code("F"), 9, Code(" "), Code("F"), Code("4"), Code(" ")>>,
     Str(<<"4", "F", " ", "F">>)}

ValueInputs == BoundedSeq(ValueAlphabet, MaxValueLen) \cup PairedValues

\* characteristic UUIDs: a 16-bit UUID, and one that holds the lone
\* surrogate U+DCFF
DefaultUuid == Str(<<"2", "A", "3", "7">>)
UuidInputs == {DefaultUuid, <<Code("2"), 56575>>}

\* ASCII digits, signs, underscore, a letter, and beyond ASCII the no-break
\* space U+00A0 and ARABIC-INDIC DIGIT THREE U+0663
ArgAlphabet ==
    {Code("0"), Code("5"), Dash, Plus, Underscore, Code("x")} \cup {160, 1635}
ArgInputs == BoundedSeq(ArgAlphabet, MaxArgLen)

\* GATT tables: a table is a sequence of services, a service a sequence of
\* characteristics, a characteristic has "read" among its properties or not
\* and a number of descriptors.  w counts the nodes of the table.
CharsOfWeight(w) == {[readable |-> r, ndesc |-> w - 1] : r \in BOOLEAN}

RECURSIVE CharSeqs(_)
CharSeqs(w) ==
    IF w = 0 THEN {<<>>}
    ELSE UNION {{<<c>> \o rest : c \in CharsOfWeight(k), rest \in CharSeqs(w - k)}
                : k \in 1..w}

RECURSIVE ServiceLists(_)
ServiceLists(w) ==
    IF w = 0 THEN {<<>>}
    ELSE UNION {{<<s>> \o rest : s \in CharSeqs(k - 1), rest \in ServiceLists(w - k)}
                : k \in 1..w}

\* tables in which an item follows a descriptor: a characteristic in the
\* same service, and a service
FollowedDescriptors ==
    {<< <<[readable |-> TRUE, ndesc |-> 1], [readable |-> TRUE, ndesc |-> 0]>> >>,
     << <<[readable |-> FALSE, ndesc |-> 1]>>, <<>> >>}

DeviceInputs == UNION {ServiceLists(w) : w \in 0..MaxNodes} \cup FollowedDescriptors

----------------------------------------------------------------------------
(* Initial states: the process has started, nothing has run *)

InitRun ==
    /\ pc = "main"
    /\ connectCalls = 0 /\ connectArg = <<>> /\ connectOutcome = "none"
    /\ is_connected = FALSE
    /\ disconnectCalls = 0 /\ disconnectRaised = FALSE
    /\ pending = "none" /\ result = "none"
    /\ si = 0 /\ ci = 0 /\ di = 0 /\ report = <<>> /\ lib = <<>>
    /\ enumFault = FALSE /\ enumAborted = FALSE
    /\ value_bytes = <<>> /\ writeCalls = 0 /\ writeArgs = <<>>
    /\ writeOutcome = "none"
    /\ scan_time = DefaultScanTime /\ warned = FALSE
    /\ discoverCalls = 0 /\ discoverTimeout = 0 /\ scanRaised = FALSE
    /\ devices = <<>>
    /\ out = <<>> /\ exit = "running"

InitScan ==
    /\ prog = "scan"
    /\ has_arg \in BOOLEAN
    /\ argv1 \in (IF has_arg THEN ArgInputs ELSE {<<>>})
    /\ mac_address = <<>> /\ show_descriptors = FALSE
    /\ char_uuid = <<>> /\ value_str = <<>> /\ hex_mode = FALSE /\ device = <<>>

\* every address with a peer without services, every GATT table behind the
\* default address
InitExplore ==
    /\ prog = "explore"
    /\ \/ mac_address \in AddressInputs /\ device = <<>>
       \/ mac_address = DefaultMac /\ device \in DeviceInputs
    /\ show_descriptors \in BOOLEAN
    /\ char_uuid = <<>> /\ value_str = <<>> /\ hex_mode = FALSE
    /\ has_arg = FALSE /\ argv1 = <<>>

\* every address with the values of at most one character, every value
\* with the default address, either with the first UUID; every UUID with
\* the default address and the values of at most one character
InitWrite ==
    /\ prog = "write"
    /\ \/ /\ mac_address \in AddressInputs
          /\ value_str \in BoundedSeq(ValueAlphabet, 1)
          /\ char_uuid = DefaultUuid
       \/ /\ mac_address = DefaultMac
          /\ value_str \in ValueInputs
          /\ char_uuid = DefaultUuid
       \/ /\ mac_address = DefaultMac
          /\ value_str \in BoundedSeq(ValueAlphabet, 1)
          /\ char_uuid \in UuidInputs
    /\ hex_mode \in BOOLEAN
    /\ show_descriptors = FALSE /\ device = <<>>
    /\ has_arg = FALSE /\ argv1 = <<>>

Init == InitRun /\ (InitScan \/ InitExplore \/ InitWrite)

----------------------------------------------------------------------------
(* Process end *)

Emit(msgs) == out' = out \o msgs

\* what is printed of msgs when the prints are cut short after any of them
Prefixes(msgs) == {SubSeq(msgs, 1, k) : k \in 0..Len(msgs)}

\* the message of except KeyboardInterrupt at the bottom of each script
InterruptMessage ==
    IF prog = "scan" THEN "Scan interrupted by user." ELSE "Operation interrupted by user."

\* print(text) raises UnicodeEncodeError when text holds a lone surrogate
\* and the error handler of stdout is strict (any UTF-8 locale); it prints
\* under surrogateescape (the C locale)
PrintFails(text) == \E i \in 1..Len(text) : IsSurrogate(text[i])

\* KeyboardInterrupt leaves asyncio.run with o printed so far: the except
\* KeyboardInterrupt clause prints its message and the script ends with
\* status 0; one more SIGINT inside the clause, before or after its print,
\* is an uncaught KeyboardInterrupt (traceback, status 130)
Interrupted(o) ==
    /\ pc' = "done"
    /\ \/ out' = o \o <<InterruptMessage>> /\ exit' = "interrupted"
       \/ out' \in {o, o \o <<InterruptMessage>>} /\ exit' = "KeyboardInterrupt"

\* main() prints msgs and returns without another await.  asyncio.run then
\* returns (exit status 0), unless the user interrupts: a SIGINT since the
\* last await cancels the main task, which takes effect when main returns,
\* and a second SIGINT raises KeyboardInterrupt at once, between any two
\* prints
Finish(msgs) ==
    \/ Emit(msgs) /\ exit' = "ok" /\ pc' = "done"
    \/ \E p \in Prefixes(msgs) : Interrupted(out \o p)

\* except Exception at the bottom of each script: message, sys.exit(1); a
\* SIGINT inside the clause is an uncaught KeyboardInterrupt
Crashed ==
    /\ pc' = "done"
    /\ \/ Emit(<<"An error occurred">>) /\ exit' = "sys.exit(1)"
       \/ out' \in {out, out \o <<"An error occurred">>} /\ exit' = "KeyboardInterrupt"

----------------------------------------------------------------------------
(* list_ble_devices.py *)

\* lines 92-94: the prints of except ValueError
ScanMessages ==
    IF ScanWarning(has_arg, argv1)
    THEN <<"Invalid scan time", "Using default scan time of 10 seconds">>
    ELSE <<>>

\* main, lines 81-95: the scan time
ScanMain ==
    /\ prog = "scan" /\ pc = "main"
    /\ scan_time' = ScanTime(has_arg, argv1)
    /\ warned' = ScanWarning(has_arg, argv1)
    /\ Emit(ScanMessages)
    /\ pc' = "discover"
    /\ UNCHANGED <<inputVars, clientVars, enumVars, writeVars, discoverCalls,
                   discoverTimeout, scanRaised, devices, exit>>

\* scan_time and the prints done at each point of lines 86-95: line 89
\* assigns the parsed value, also one that is not positive, which line 95
\* resets after the prints of the except clause
ScanMainCuts ==
    LET n    == ParseInt(argv1)
        warn == ScanWarning(has_arg, argv1)
        at(t, k) == [scan_time |-> t, msgs |-> SubSeq(ScanMessages, 1, k)]
    IN  {at(DefaultScanTime, 0)}
        \cup (IF has_arg /\ n.ok THEN {at(n.val, 0)} ELSE {})
        \cup (IF warn /\ n.ok THEN {at(n.val, 1), at(n.val, 2)} ELSE {})
        \cup (IF warn /\ ~n.ok THEN {at(DefaultScanTime, 1)} ELSE {})
        \cup (IF warn THEN {at(DefaultScanTime, 2)} ELSE {})

\* main, lines 81-95, cut short by KeyboardInterrupt
ScanMainInterrupted ==
    /\ prog = "scan" /\ pc = "main"
    /\ \E c \in ScanMainCuts :
          /\ scan_time' = c.scan_time
          /\ warned' = (Len(c.msgs) = 2)
          /\ Interrupted(out \o c.msgs)
    /\ UNCHANGED <<inputVars, clientVars, enumVars, writeVars,
                   discoverCalls, discoverTimeout, scanRaised, devices>>

\* what scan_ble_devices returns when discover raises an Exception
ScanErrorResult == <<>>

\* line 36
Discover ==
    /\ prog = "scan" /\ pc = "discover"
    /\ discoverCalls' = discoverCalls + 1
    /\ discoverTimeout' = scan_time

\* scan_ble_devices: discover returns n devices
ScanReturns ==
    /\ Discover
    /\ \E n \in 0..MaxDevices : devices' = [i \in 1..n |-> i]
    /\ pc' = "display"
    /\ UNCHANGED <<inputVars, clientVars, enumVars, writeVars, scan_time, warned,
                   scanRaised, out, exit>>

\* ScanRaises without the try: the exception reaches the top level
ScanRaisesUncaught ==
    /\ Discover
    /\ scanRaised' = TRUE
    /\ Crashed
    /\ UNCHANGED <<inputVars, clientVars, enumVars, writeVars, scan_time, warned,
                   devices>>

\* scan_ble_devices: discover raises, the except clause returns the empty list
ScanRaises ==
    /\ Discover
    /\ scanRaised' = TRUE
    /\ devices' = ScanErrorResult
    /\ Emit(<<"Error during scanning">>)
    /\ pc' = "display"
    /\ UNCHANGED <<inputVars, clientVars, enumVars, writeVars, scan_time, warned,
                   exit>>

\* discover raises and KeyboardInterrupt strikes in the except clause,
\* before its print
ScanRaisesInterrupted ==
    /\ Discover
    /\ scanRaised' = TRUE
    /\ Interrupted(out)
    /\ UNCHANGED <<inputVars, clientVars, enumVars, writeVars, scan_time, warned,
                   devices>>

\* the user interrupts the scan, during lines 32-33 or during discover:
\* nothing catches it below the top level
ScanInterrupted ==
    /\ prog = "scan" /\ pc = "discover"
    /\ Discover \/ UNCHANGED <<discoverCalls, discoverTimeout>>
    /\ Interrupted(out)
    /\ UNCHANGED <<inputVars, clientVars, enumVars, writeVars, scan_time, warned,
                   scanRaised, devices>>

\* display_devices
DisplayLines(devs) ==
    IF devs = <<>> THEN <<"No BLE devices found.">>
    ELSE <<"Found BLE device(s)">> \o [i \in 1..Len(devs) |-> "device row"]

\* main, lines 104-116
DetailLines(devs) ==
    IF devs # <<>>
    THEN <<"Additional device information:">> \o [i \in 1..Len(devs) |-> "device detail"]
    ELSE <<>>

ScanDisplay ==
    /\ prog = "scan" /\ pc = "display"
    /\ Finish(DisplayLines(devices) \o DetailLines(devices))
    /\ UNCHANGED <<inputVars, clientVars, enumVars, writeVars, scanVars>>

----------------------------------------------------------------------------
(* async with BleakClient(mac_address) as client, in both programs: entering
   calls connect, leaving calls disconnect; try/except around it *)

\* __aenter__: the client is built from the address as given, connect is awaited
Connecting(p) ==
    /\ prog = p /\ pc = "connect"
    /\ connectCalls' = connectCalls + 1
    /\ connectArg' = mac_address

\* ConnectRaises with one retry of the connection
ConnectRaisesRetrying(p) ==
    /\ Connecting(p)
    /\ \E e \in {"Bluetooth error", "Unexpected error"} : Emit(<<e>>)
    /\ connectOutcome' = "raised"
    /\ IF connectCalls = 0
       THEN pc' = "connect" /\ result' = result
       ELSE pc' = "returned" /\ result' = "False"
    /\ UNCHANGED <<is_connected, disconnectCalls, disconnectRaised, pending, exit>>

\* connect raises BleakError or another Exception: reported, False returned
ConnectRaises(p) ==
    /\ Connecting(p)
    /\ \E e \in {"Bluetooth error", "Unexpected error"} : Emit(<<e>>)
    /\ connectOutcome' = "raised"
    /\ result' = "False"
    /\ pc' = "returned"
    /\ UNCHANGED <<is_connected, disconnectCalls, disconnectRaised, pending, exit>>

\* connect raises and KeyboardInterrupt strikes in the except clause, before
\* or after its print: nothing is returned
ConnectRaisesInterrupted(p) ==
    /\ Connecting(p)
    /\ connectOutcome' = "raised"
    /\ \E e \in {"Bluetooth error", "Unexpected error"} :
          \E q \in Prefixes(<<e>>) : Interrupted(out \o q)
    /\ UNCHANGED <<is_connected, disconnectCalls, disconnectRaised, pending, result>>

\* the user interrupts before connect is called (the print of "Attempting
\* to connect") or before __aenter__ has returned: connect did not complete,
\* the block is not entered and nothing is released
ConnectInterrupted(p) ==
    /\ prog = p /\ pc = "connect"
    /\ \/ Connecting(p) /\ connectOutcome' = "interrupted"
       \/ UNCHANGED <<connectCalls, connectArg, connectOutcome>>
    /\ Interrupted(out)
    /\ UNCHANGED <<is_connected, disconnectCalls, disconnectRaised, pending, result>>

\* what the body prints after the is_connected test
ConnectMessages(c) == IF c THEN <<"Successfully connected">> ELSE <<"Failed to connect">>

\* connect returns: the body starts with the is_connected test
ConnectReturns(p, bodyPc) ==
    /\ Connecting(p)
    /\ connectOutcome' = "ok"
    /\ \E c \in BOOLEAN :
          /\ is_connected' = c
          /\ Emit(ConnectMessages(c))
          /\ IF c THEN /\ pc' = bodyPc
                       /\ pending' = pending
                  ELSE /\ pc' = "aexit"
                       /\ pending' = "return False"
    /\ UNCHANGED <<disconnectCalls, disconnectRaised, result, exit>>

\* connect returns and reading client.is_connected raises an Exception: it
\* leaves the block
ConnectedTestRaises(p) ==
    /\ Connecting(p)
    /\ connectOutcome' = "ok"
    /\ pc' = "aexit"
    /\ pending' = "raise"
    /\ UNCHANGED <<is_connected, disconnectCalls, disconnectRaised, result, out, exit>>

\* connect returns and KeyboardInterrupt strikes at the head of the body,
\* before or after its print: the block is left with the interrupt pending
ConnectReturnsInterrupted(p) ==
    /\ Connecting(p)
    /\ connectOutcome' = "ok"
    /\ \E c \in BOOLEAN :
          /\ is_connected' = c
          /\ \E q \in Prefixes(ConnectMessages(c)) : Emit(q)
    /\ pc' = "aexit"
    /\ pending' = "interrupt"
    /\ UNCHANGED <<disconnectCalls, disconnectRaised, result, exit>>

\* __aexit__ awaits disconnect, however the body was left
Leaving(p) ==
    /\ prog = p /\ pc = "aexit"
    /\ disconnectCalls' = disconnectCalls + 1

\* disconnect returns: the body's return value or exception takes effect;
\* an Exception of the body reaches the except clauses, which return False
DisconnectReturns(p) ==
    /\ Leaving(p)
    /\ CASE pending = "interrupt" ->
              /\ Interrupted(out)
              /\ result' = result
         [] pending = "raise" ->
              /\ \E e \in {"Bluetooth error", "Unexpected error"} : Emit(<<e>>)
              /\ result' = "False"
              /\ pc' = "returned"
              /\ UNCHANGED exit
         [] OTHER ->
              /\ result' = (IF pending = "return True" THEN "True" ELSE "False")
              /\ pc' = "returned"
              /\ UNCHANGED <<out, exit>>
    /\ UNCHANGED <<connectCalls, connectArg, connectOutcome, is_connected,
                   disconnectRaised, pending>>

\* disconnect returns with an Exception of the body pending, and
\* KeyboardInterrupt strikes in the except clause, before or after its print
DisconnectReturnsInterrupted(p) ==
    /\ Leaving(p)
    /\ pending = "raise"
    /\ \E e \in {"Bluetooth error", "Unexpected error"} :
          \E q \in Prefixes(<<e>>) : Interrupted(out \o q)
    /\ UNCHANGED <<connectCalls, connectArg, connectOutcome, is_connected,
                   disconnectRaised, pending, result>>

\* disconnect raises an Exception: it replaces the body's outcome and is
\* caught by the except clauses, which return False
DisconnectRaises(p) ==
    /\ Leaving(p)
    /\ disconnectRaised' = TRUE
    /\ \E e \in {"Bluetooth error", "Unexpected error"} : Emit(<<e>>)
    /\ result' = "False"
    /\ pc' = "returned"
    /\ UNCHANGED <<connectCalls, connectArg, connectOutcome, is_connected, pending, exit>>

\* disconnect raises and KeyboardInterrupt strikes in the except clause,
\* before or after its print: nothing is returned
DisconnectRaisesInterrupted(p) ==
    /\ Leaving(p)
    /\ disconnectRaised' = TRUE
    /\ \E e \in {"Bluetooth error", "Unexpected error"} :
          \E q \in Prefixes(<<e>>) : Interrupted(out \o q)
    /\ UNCHANGED <<connectCalls, connectArg, connectOutcome, is_connected, pending,
                   result>>

\* the user interrupts as the block is left: by a KeyboardInterrupt on
\* entry of __aexit__, before disconnect is called, during disconnect, or
\* after it
DisconnectInterrupted(p) ==
    /\ prog = p /\ pc = "aexit"
    /\ Leaving(p) \/ UNCHANGED disconnectCalls
    /\ Interrupted(out)
    /\ UNCHANGED <<connectCalls, connectArg, connectOutcome, is_connected,
                   disconnectRaised, pending, result>>

----------------------------------------------------------------------------
(* connect_ble_device.py *)

\* main, lines 144-166: the echo of the address, then the address check
ExploreMain ==
    /\ prog = "explore" /\ pc = "main"
    /\ \/ PrintFails(mac_address) /\ Crashed
       \/ IF ValidAddress(mac_address)
          THEN pc' = "connect" /\ UNCHANGED <<out, exit>>
          ELSE Finish(<<"Invalid MAC address format">>)
    /\ UNCHANGED <<inputVars, clientVars, enumVars, writeVars, scanVars>>

\* main, lines 144-166, cut short by KeyboardInterrupt on the way to
\* connect_and_explore
ExploreMainInterrupted ==
    /\ prog = "explore" /\ pc = "main"
    /\ ValidAddress(mac_address)
    /\ Interrupted(out)
    /\ UNCHANGED <<inputVars, clientVars, enumVars, writeVars, scanVars>>

ExploreConnectRaises ==
    /\ ConnectRaises("explore")
    /\ UNCHANGED <<inputVars, enumVars, writeVars, scanVars>>

ExploreConnectRaisesInterrupted ==
    /\ ConnectRaisesInterrupted("explore")
    /\ UNCHANGED <<inputVars, enumVars, writeVars, scanVars>>

ExploreConnectInterrupted ==
    /\ ConnectInterrupted("explore")
    /\ UNCHANGED <<inputVars, enumVars, writeVars, scanVars>>

ExploreConnectReturns ==
    /\ ConnectReturns("explore", "services")
    /\ UNCHANGED <<inputVars, enumVars, writeVars, scanVars>>

ExploreConnectReturnsInterrupted ==
    /\ ConnectReturnsInterrupted("explore")
    /\ UNCHANGED <<inputVars, enumVars, writeVars, scanVars>>

ExploreConnectedTestRaises ==
    /\ ConnectedTestRaises("explore")
    /\ UNCHANGED <<inputVars, enumVars, writeVars, scanVars>>

\* positions of the loops of explore_device_services
At(p, s, c, d) == [pc |-> p, s |-> s, c |-> c, d |-> d]

NextService(s) ==
    IF s < Len(device) THEN At("service", s + 1, 0, 0) ELSE At("explored", s, 0, 0)

NextChar(s, c) ==
    IF c < Len(device[s]) THEN At("char", s, c + 1, 0) ELSE NextService(s)

NextDesc(s, c, d) ==
    IF d < device[s][c].ndesc THEN At("desc", s, c, d + 1) ELSE NextChar(s, c)

\* lines 79-100: the descriptors of a characteristic are visited only on request
AfterValue(s, c) ==
    IF show_descriptors /\ device[s][c].ndesc > 0 THEN At("desc", s, c, 1)
    ELSE NextChar(s, c)

\* where the step at a position leads when nothing is raised
AfterService(s) == IF device[s] = <<>> THEN NextService(s) ELSE At("char", s, 1, 0)

AfterChar(s, c) == IF device[s][c].readable THEN At("read", s, c, 0) ELSE AfterValue(s, c)

\* move to position p; when the loops are over explore_device_services
\* returns and connect_and_explore leaves the block with return True
Goto(p) ==
    /\ si' = p.s /\ ci' = p.c /\ di' = p.d
    /\ IF p.pc = "explored"
       THEN /\ pc' = "aexit"
            /\ pending' = "return True"
            /\ Emit(<<"Disconnected from">>)
       ELSE /\ pc' = p.pc
            /\ UNCHANGED <<pending, out>>

Item(kind, s, c, d, val) == [kind |-> kind, s |-> s, c |-> c, d |-> d, val |-> val]

\* how a read is rendered: decoded text, hex bytes, or the placeholder
Rendering(outcome) ==
    CASE outcome = "utf8"   -> "string"
      [] outcome = "binary" -> "hex"
      [] outcome = "raise"  -> "unreadable"

ReadOutcomes == {"utf8", "binary", "raise"}

Enumerating(p) == prog = "explore" /\ pc = p

\* the report, the library's outcomes and the output as they stand after a
\* print or a library call
Snap(r, l, o) == [report |-> r, lib |-> l, out |-> o]

\* the report and the library's outcomes as they stand where, in the step
\* at the current position, an attribute of the library can raise an
\* Exception outside the inner try blocks: client.services (line 37); the
\* uuid an item's header prints (lines 46, 58, 84), with the item not yet
\* reported; the attributes read after the header (lines 47-51, 59-64,
\* 85-86), with the item reported; char.descriptors (line 80), read on
\* request once the value of the characteristic has been dealt with
FaultPoints ==
    CASE pc = "services" -> {Snap(report, lib, out)}
      [] pc = "service" ->
            {Snap(report, lib, out),
             Snap(Append(report, Item("service", si, 0, 0, "")), lib, out)}
      [] pc = "char" ->
            {Snap(report, lib, out),
             Snap(Append(report, Item("char", si, ci, 0, "")), lib, out)}
      [] pc = "read" ->
            IF show_descriptors
            THEN {Snap(Append(report, Item("value", si, ci, 0, Rendering(o))),
                       Append(lib, o), out) : o \in ReadOutcomes}
            ELSE {}
      [] pc = "desc" ->
            {Snap(report, lib, out),
             Snap(Append(report, Item("descriptor", si, ci, di, "")), lib, out)}
      [] OTHER -> {}

\* EnumRaises without the outer try: the exception leaves the block and the
\* except clauses of connect_and_explore return False
EnumRaisesUncaught(p) ==
    /\ Enumerating(p)
    /\ \E f \in FaultPoints : report' = f.report /\ lib' = f.lib
    /\ enumFault' = TRUE
    /\ pending' = "raise"
    /\ pc' = "aexit"
    /\ UNCHANGED <<inputVars, connectCalls, connectArg, connectOutcome, is_connected,
                   disconnectCalls, disconnectRaised, result, si, ci, di,
                   enumAborted, writeVars, scanVars, out, exit>>

\* line 106: the outer except of explore_device_services; the function then
\* returns normally and connect_and_explore goes on to return True
EnumRaises(p) ==
    /\ Enumerating(p)
    /\ \E f \in FaultPoints : report' = f.report /\ lib' = f.lib
    /\ enumFault' = TRUE
    /\ enumAborted' = TRUE
    /\ Emit(<<"Error exploring services", "Disconnected from">>)
    /\ pending' = "return True"
    /\ pc' = "aexit"
    /\ UNCHANGED <<inputVars, connectCalls, connectArg, connectOutcome, is_connected,
                   disconnectCalls, disconnectRaised, result, si, ci, di,
                   writeVars, scanVars, exit>>

\* lines 106-107 and 127-128 cut short by KeyboardInterrupt: after an
\* Exception reached the outer except, before or after either print
EnumRaisesInterrupted ==
    /\ prog = "explore"
    /\ \E f \in FaultPoints : report' = f.report /\ lib' = f.lib
    /\ enumFault' = TRUE
    /\ enumAborted' = TRUE
    /\ \E q \in Prefixes(<<"Error exploring services", "Disconnected from">>) : Emit(q)
    /\ pending' = "interrupt"
    /\ pc' = "aexit"
    /\ UNCHANGED <<inputVars, connectCalls, connectArg, connectOutcome, is_connected,
                   disconnectCalls, disconnectRaised, result, si, ci, di,
                   writeVars, scanVars, exit>>

\* line 127, reached when the step leads out of the loops
Closing(p, r, l) ==
    IF p.pc = "explored" THEN <<Snap(r, l, out \o <<"Disconnected from">>)>> ELSE <<>>

\* the successive effects of the step at the current position, the library
\* answering o: each header, each library call, each rendering, line 127
EnumSnapshots(o) ==
    CASE pc = "services" ->
            IF device = <<>>
            THEN <<Snap(report, lib, out \o <<"No services found on this device.">>),
                   Snap(report, lib, out \o <<"No services found on this device.",
                                              "Disconnected from">>)>>
            ELSE <<>>
      [] pc = "service" ->
            LET r == Append(report, Item("service", si, 0, 0, ""))
            IN  <<Snap(r, lib, out)>> \o Closing(AfterService(si), r, lib)
      [] pc = "char" ->
            LET r == Append(report, Item("char", si, ci, 0, ""))
            IN  <<Snap(r, lib, out)>> \o Closing(AfterChar(si, ci), r, lib)
      [] pc = "read" ->
            LET l == Append(lib, o)
                r == Append(report, Item("value", si, ci, 0, Rendering(o)))
            IN  <<Snap(report, l, out), Snap(r, l, out)>>
                \o Closing(AfterValue(si, ci), r, l)
      [] pc = "desc" ->
            LET h == Append(report, Item("descriptor", si, ci, di, ""))
                l == Append(lib, o)
                r == Append(h, Item("value", si, ci, di, Rendering(o)))
            IN  <<Snap(h, lib, out), Snap(h, l, out), Snap(r, l, out)>>
                \o Closing(NextDesc(si, ci, di), r, l)

\* a user interrupt inside the body, which no except Exception catches:
\* CancelledError at an await (read_gatt_char, read_gatt_descriptor) or
\* KeyboardInterrupt between any two effects of the step
EnumInterrupted ==
    /\ prog = "explore"
    /\ pc \in {"services", "service", "char", "read", "desc"}
    /\ \E o \in ReadOutcomes :
          \E k \in 0..Len(EnumSnapshots(o)) :
             LET s == IF k = 0 THEN Snap(report, lib, out) ELSE EnumSnapshots(o)[k]
             IN  report' = s.report /\ lib' = s.lib /\ out' = s.out
    /\ pending' = "interrupt"
    /\ pc' = "aexit"
    /\ UNCHANGED <<inputVars, connectCalls, connectArg, connectOutcome, is_connected,
                   disconnectCalls, disconnectRaised, result, si, ci, di,
                   enumFault, enumAborted, writeVars, scanVars, exit>>

\* lines 37-43
GetServices ==
    /\ Enumerating("services")
    /\ IF device = <<>>
       THEN /\ pc' = "aexit"
            /\ pending' = "return True"
            /\ Emit(<<"No services found on this device.", "Disconnected from">>)
            /\ UNCHANGED <<si, ci, di>>
       ELSE Goto(At("service", 1, 0, 0))
    /\ UNCHANGED <<inputVars, connectCalls, connectArg, connectOutcome, is_connected,
                   disconnectCalls, disconnectRaised, result, report, lib,
                   enumFault, enumAborted, writeVars, scanVars, exit>>

GetServicesRaises == EnumRaises("services")

\* lines 45-55 and 101-104
VisitService ==
    /\ Enumerating("service")
    /\ report' = Append(report, Item("service", si, 0, 0, ""))
    /\ Goto(AfterService(si))
    /\ UNCHANGED <<inputVars, connectCalls, connectArg, connectOutcome, is_connected,
                   disconnectCalls, disconnectRaised, result, lib, enumFault,
                   enumAborted, writeVars, scanVars, exit>>

VisitServiceRaises == EnumRaises("service")

\* lines 57-64
VisitChar ==
    /\ Enumerating("char")
    /\ report' = Append(report, Item("char", si, ci, 0, ""))
    /\ Goto(AfterChar(si, ci))
    /\ UNCHANGED <<inputVars, connectCalls, connectArg, connectOutcome, is_connected,
                   disconnectCalls, disconnectRaised, result, lib, enumFault,
                   enumAborted, writeVars, scanVars, exit>>

VisitCharRaises == EnumRaises("char")

\* ReadChar without the inner try: a failed read reaches the outer except
ReadCharAbortingOnFailure ==
    /\ Enumerating("read")
    /\ \E o \in ReadOutcomes :
          /\ lib' = Append(lib, o)
          /\ IF o = "raise"
             THEN /\ enumAborted' = TRUE
                  /\ Emit(<<"Error exploring services", "Disconnected from">>)
                  /\ pending' = "return True"
                  /\ pc' = "aexit"
                  /\ UNCHANGED <<si, ci, di, report>>
             ELSE /\ report' = Append(report, Item("value", si, ci, 0, Rendering(o)))
                  /\ Goto(AfterValue(si, ci))
                  /\ UNCHANGED enumAborted
    /\ UNCHANGED <<inputVars, connectCalls, connectArg, connectOutcome, is_connected,
                   disconnectCalls, disconnectRaised, result, enumFault,
                   writeVars, scanVars, exit>>

\* lines 65-76: read_gatt_char returns or raises an Exception
ReadChar ==
    /\ Enumerating("read")
    /\ \E o \in ReadOutcomes :
          /\ lib' = Append(lib, o)
          /\ report' = Append(report, Item("value", si, ci, 0, Rendering(o)))
          /\ Goto(AfterValue(si, ci))
    /\ UNCHANGED <<inputVars, connectCalls, connectArg, connectOutcome, is_connected,
                   disconnectCalls, disconnectRaised, result, enumFault,
                   enumAborted, writeVars, scanVars, exit>>

\* line 80 raises after the read of lines 65-76
DescriptorsRaises == EnumRaises("read")

\* lines 83-97: the descriptor's header, then read_gatt_descriptor returns
\* or raises an Exception
VisitDesc ==
    /\ Enumerating("desc")
    /\ \E o \in ReadOutcomes :
          /\ lib' = Append(lib, o)
          /\ report' = report \o <<Item("descriptor", si, ci, di, ""),
                                   Item("value", si, ci, di, Rendering(o))>>
    /\ Goto(NextDesc(si, ci, di))
    /\ UNCHANGED <<inputVars, connectCalls, connectArg, connectOutcome, is_connected,
                   disconnectCalls, disconnectRaised, result, enumFault,
                   enumAborted, writeVars, scanVars, exit>>

VisitDescRaises == EnumRaises("desc")

ExploreDisconnectReturns ==
    /\ DisconnectReturns("explore")
    /\ UNCHANGED <<inputVars, enumVars, writeVars, scanVars>>

ExploreDisconnectReturnsInterrupted ==
    /\ DisconnectReturnsInterrupted("explore")
    /\ UNCHANGED <<inputVars, enumVars, writeVars, scanVars>>

ExploreDisconnectRaises ==
    /\ DisconnectRaises("explore")
    /\ UNCHANGED <<inputVars, enumVars, writeVars, scanVars>>

ExploreDisconnectRaisesInterrupted ==
    /\ DisconnectRaisesInterrupted("explore")
    /\ UNCHANGED <<inputVars, enumVars, writeVars, scanVars>>

ExploreDisconnectInterrupted ==
    /\ DisconnectInterrupted("explore")
    /\ UNCHANGED <<inputVars, enumVars, writeVars, scanVars>>

\* main, lines 169-174
ExploreReport ==
    /\ prog = "explore" /\ pc = "returned"
    /\ Finish(IF result = "True"
              THEN <<"Device exploration completed successfully.">>
              ELSE <<"Device exploration failed.">>)
    /\ UNCHANGED <<inputVars, clientVars, enumVars, writeVars, scanVars>>

----------------------------------------------------------------------------
(* write_ble_characteristic.py *)

\* main, lines 72-86: the echo of the arguments, the address check, then
\* parse_value
WriteMain ==
    /\ prog = "write" /\ pc = "main"
    /\ LET parsed == parse_value(value_str, hex_mode)
       IN  \/ /\ PrintFails(mac_address) \/ PrintFails(char_uuid) \/ PrintFails(value_str)
              /\ Crashed
              /\ UNCHANGED value_bytes
           \/ IF ~ValidAddress(mac_address)
              THEN /\ Finish(<<"Invalid MAC address format">>)
                   /\ UNCHANGED value_bytes
              ELSE IF parsed.outcome = "exit"
              THEN /\ Emit(<<"Invalid hex string">>)
                   /\ exit' = "sys.exit(1)"
                   /\ pc' = "done"
                   /\ UNCHANGED value_bytes
              ELSE IF parsed.outcome = "raise"
              THEN /\ Crashed
                   /\ UNCHANGED value_bytes
              ELSE /\ value_bytes' = parsed.bytes
                   /\ pc' = "connect"
                   /\ UNCHANGED <<out, exit>>
    /\ UNCHANGED <<inputVars, clientVars, enumVars, writeCalls, writeArgs, writeOutcome,
                   scanVars>>

\* main, lines 72-86, cut short by KeyboardInterrupt on the way to
\* write_characteristic: in parse_value before or after the print of line 32
WriteMainInterrupted ==
    /\ prog = "write" /\ pc = "main"
    /\ ValidAddress(mac_address)
    /\ \E q \in Prefixes(IF parse_value(value_str, hex_mode).outcome = "exit"
                         THEN <<"Invalid hex string">> ELSE <<>>) :
          Interrupted(out \o q)
    /\ UNCHANGED <<inputVars, clientVars, enumVars, writeVars, scanVars>>

WriteConnectRaises ==
    /\ ConnectRaises("write")
    /\ UNCHANGED <<inputVars, enumVars, writeVars, scanVars>>

WriteConnectRaisesInterrupted ==
    /\ ConnectRaisesInterrupted("write")
    /\ UNCHANGED <<inputVars, enumVars, writeVars, scanVars>>

WriteConnectInterrupted ==
    /\ ConnectInterrupted("write")
    /\ UNCHANGED <<inputVars, enumVars, writeVars, scanVars>>

WriteConnectReturns ==
    /\ ConnectReturns("write", "write")
    /\ UNCHANGED <<inputVars, enumVars, writeVars, scanVars>>

WriteConnectReturnsInterrupted ==
    /\ ConnectReturnsInterrupted("write")
    /\ UNCHANGED <<inputVars, enumVars, writeVars, scanVars>>

WriteConnectedTestRaises ==
    /\ ConnectedTestRaises("write")
    /\ UNCHANGED <<inputVars, enumVars, writeVars, scanVars>>

\* the body from line 44 on leaves the block one way or another
InBody ==
    /\ prog = "write" /\ pc = "write"
    /\ pc' = "aexit"
    /\ UNCHANGED <<inputVars, connectCalls, connectArg, connectOutcome, is_connected,
                   disconnectCalls, disconnectRaised, result, enumVars,
                   value_bytes, scanVars, exit>>

\* line 46: the one write_gatt_char call
Writing ==
    /\ InBody
    /\ writeCalls' = writeCalls + 1
    /\ writeArgs' = <<char_uuid, value_bytes>>

\* lines 47, 51-52
WriteReturns ==
    /\ Writing
    /\ writeOutcome' = "ok"
    /\ Emit(<<"Successfully wrote value", "Disconnected from">>)
    /\ pending' = "return True"

\* lines 47, 51-52 cut short by KeyboardInterrupt, before or after either print
WriteReturnsInterrupted ==
    /\ Writing
    /\ writeOutcome' = "ok"
    /\ \E q \in Prefixes(<<"Successfully wrote value", "Disconnected from">>) : Emit(q)
    /\ pending' = "interrupt"

\* WriteRaises without the return False of line 50
WriteRaisesFallingThrough ==
    /\ Writing
    /\ writeOutcome' = "raised"
    /\ Emit(<<"Failed to write value", "Disconnected from">>)
    /\ pending' = "return True"

\* lines 48-50
WriteRaises ==
    /\ Writing
    /\ writeOutcome' = "raised"
    /\ Emit(<<"Failed to write value">>)
    /\ pending' = "return False"

\* lines 48-50 cut short by KeyboardInterrupt, before or after the print
WriteRaisesInterrupted ==
    /\ Writing
    /\ writeOutcome' = "raised"
    /\ \E q \in Prefixes(<<"Failed to write value">>) : Emit(q)
    /\ pending' = "interrupt"

\* a user interrupt before the write is called (line 44) or during it
WriteInterrupted ==
    /\ \/ Writing /\ writeOutcome' = "interrupted"
       \/ InBody /\ UNCHANGED <<writeCalls, writeArgs, writeOutcome>>
    /\ pending' = "interrupt"
    /\ UNCHANGED out

WriteDisconnectReturns ==
    /\ DisconnectReturns("write")
    /\ UNCHANGED <<inputVars, enumVars, writeVars, scanVars>>

WriteDisconnectReturnsInterrupted ==
    /\ DisconnectReturnsInterrupted("write")
    /\ UNCHANGED <<inputVars, enumVars, writeVars, scanVars>>

WriteDisconnectRaises ==
    /\ DisconnectRaises("write")
    /\ UNCHANGED <<inputVars, enumVars, writeVars, scanVars>>

WriteDisconnectRaisesInterrupted ==
    /\ DisconnectRaisesInterrupted("write")
    /\ UNCHANGED <<inputVars, enumVars, writeVars, scanVars>>

WriteDisconnectInterrupted ==
    /\ DisconnectInterrupted("write")
    /\ UNCHANGED <<inputVars, enumVars, writeVars, scanVars>>

\* main, lines 89-92
WriteReport ==
    /\ prog = "write" /\ pc = "returned"
    /\ Finish(IF result = "True"
              THEN <<"Write operation completed successfully.">>
              ELSE <<"Write operation failed.">>)
    /\ UNCHANGED <<inputVars, clientVars, enumVars, writeVars, scanVars>>

----------------------------------------------------------------------------
(* The programs *)

Next ==
    \/ ScanMain \/ ScanMainInterrupted
    \/ ScanReturns \/ ScanRaises \/ ScanRaisesInterrupted \/ ScanInterrupted
    \/ ScanDisplay
    \/ ExploreMain \/ ExploreMainInterrupted
    \/ ExploreConnectReturns \/ ExploreConnectReturnsInterrupted
    \/ ExploreConnectedTestRaises
    \/ ExploreConnectRaises \/ ExploreConnectRaisesInterrupted
    \/ ExploreConnectInterrupted
    \/ GetServices \/ GetServicesRaises
    \/ VisitService \/ VisitServiceRaises
    \/ VisitChar \/ VisitCharRaises
    \/ ReadChar \/ DescriptorsRaises
    \/ VisitDesc \/ VisitDescRaises
    \/ EnumRaisesInterrupted \/ EnumInterrupted
    \/ ExploreDisconnectReturns \/ ExploreDisconnectReturnsInterrupted
    \/ ExploreDisconnectRaises
    \/ ExploreDisconnectRaisesInterrupted \/ ExploreDisconnectInterrupted
    \/ ExploreReport
    \/ WriteMain \/ WriteMainInterrupted
    \/ WriteConnectReturns \/ WriteConnectReturnsInterrupted
    \/ WriteConnectedTestRaises
    \/ WriteConnectRaises \/ WriteConnectRaisesInterrupted
    \/ WriteConnectInterrupted
    \/ WriteReturns \/ WriteReturnsInterrupted
    \/ WriteRaises \/ WriteRaisesInterrupted
    \/ WriteInterrupted
    \/ WriteDisconnectReturns \/ WriteDisconnectReturnsInterrupted
    \/ WriteDisconnectRaises
    \/ WriteDisconnectRaisesInterrupted \/ WriteDisconnectInterrupted
    \/ WriteReport

Spec == Init /\ [][Next]_vars

----------------------------------------------------------------------------
(* Vocabulary of the properties *)

Range(s) == {s[i] : i \in DOMAIN s}

Last(s) == s[Len(s)]

Separators == {Colon, Dash}

\* the flow of connect_and_explore / write_characteristic has ended: it
\* returned, or an exception left it
FlowEnded == pc \in {"returned", "done"}

\* the items explore_device_services visits on a table, in the library's order
DescVisits(s, c, n) ==
    [k \in 1..(2 * n) |->
        [kind |-> IF k % 2 = 1 THEN "descriptor" ELSE "value",
         s |-> s, c |-> c, d |-> (k + 1) \div 2]]

CharVisits(dev, sd, s, c) ==
    <<[kind |-> "char", s |-> s, c |-> c, d |-> 0]>>
    \o (IF dev[s][c].readable THEN <<[kind |-> "value", s |-> s, c |-> c, d |-> 0]>>
        ELSE <<>>)
    \o (IF sd THEN DescVisits(s, c, dev[s][c].ndesc) ELSE <<>>)

RECURSIVE CharsVisits(_, _, _, _)
CharsVisits(dev, sd, s, c) ==
    IF c > Len(dev[s]) THEN <<>>
    ELSE CharVisits(dev, sd, s, c) \o CharsVisits(dev, sd, s, c + 1)

RECURSIVE ExpectedVisits(_, _, _)
ExpectedVisits(dev, sd, s) ==
    IF s > Len(dev) THEN <<>>
    ELSE <<[kind |-> "service", s |-> s, c |-> 0, d |-> 0]>>
         \o CharsVisits(dev, sd, s, 1) \o ExpectedVisits(dev, sd, s + 1)

Visited == [i \in 1..Len(report) |->
               [kind |-> report[i].kind, s |-> report[i].s,
                c |-> report[i].c, d |-> report[i].d]]

\* the renderings in the report, in order
Renderings == LET v == SelectSeq(report, LAMBDA it : it.kind = "value")
              IN  [i \in 1..Len(v) |-> v[i].val]

\* enumeration ran to the end of explore_device_services undisturbed by
\* anything but read failures
EnumerationOver ==
    /\ prog = "explore" /\ connectOutcome = "ok" /\ is_connected
    /\ pc \in {"aexit", "returned", "done"}
    /\ pending # "interrupt"
    /\ ~enumFault

\* hexadecimal strings in the strict sense: even length, hex digits only
StrictHex(s) == Len(s) % 2 = 0 /\ \A i \in 1..Len(s) : IsHexDigit(s[i])

\* hex digits and whitespace only, every maximal run of digits of even length
HexPairs(s) ==
    /\ \A i \in 1..Len(s) : IsHexDigit(s[i]) \/ s[i] \in HexWhitespace
    /\ \A i \in 1..Len(s) :
          (IsHexDigit(s[i]) /\ (i = Len(s) \/ ~IsHexDigit(s[i + 1])))
          => \E j \in 1..i :
                /\ \A k \in j..i : IsHexDigit(s[k])
                /\ j = 1 \/ ~IsHexDigit(s[j - 1])
                /\ (i - j + 1) % 2 = 0

\* main printed the address error and returned
AddressRejected == "Invalid MAC address format" \in Range(out)

\* the write program was stopped by parse_value's sys.exit(1)
HexRejected == prog = "write" /\ "Invalid hex string" \in Range(out)

\* the write program got past parse_value in hex mode
HexAccepted == prog = "write" /\ hex_mode /\ (pc = "connect" \/ connectCalls > 0)

\* the run ended in a KeyboardInterrupt, caught at the bottom of the script
\* or not
UserInterrupted == exit \in {"interrupted", "KeyboardInterrupt"}

----------------------------------------------------------------------------
(* Properties *)

\* C1: in the explore and the write flow disconnect is invoked only after a
\* successful connect, never more than once, and exactly once by the time
\* the flow has ended, however the body was left, a user interrupt
\* included.
C1_DisconnectOncePerConnect ==
    prog \in {"explore", "write"} =>
        /\ connectOutcome # "ok" => disconnectCalls = 0
        /\ disconnectCalls <= 1
        /\ (connectOutcome = "ok" /\ FlowEnded) => disconnectCalls = 1

\* C2: an address whose length without ':' and '-' is not 12 never leads to
\* a connect, in either program; nor does, in the write program with --hex,
\* a value bytes.fromhex rejects.
C2_ValidationBeforeConnect ==
    /\ (prog \in {"explore", "write"}
        /\ Cardinality({i \in DOMAIN mac_address : mac_address[i] \notin Separators}) # MacLen)
       => connectCalls = 0
    /\ (prog = "write" /\ hex_mode /\ ~FromHex(value_str).ok) => connectCalls = 0

\* C2 witness: a well-formed address with a bad hex value: the write program
\* has ended without a connect.
C2_Witness ==
    /\ prog = "write" /\ pc = "done" /\ exit = "sys.exit(1)"
    /\ mac_address = DefaultMac /\ hex_mode /\ ~StrictHex(value_str)
    /\ connectCalls = 0

\* C3: connect_and_explore makes at most one connect attempt; when connect
\* raised, the flow ended there, no exception reached except Exception at
\* the bottom of the script and, unless the user interrupted,
\* connect_and_explore returned False and main reported the failure.
C3_ConnectFailureReturnsFalse ==
    prog = "explore" =>
        /\ connectCalls <= 1
        /\ connectOutcome = "raised" =>
              /\ FlowEnded
              /\ exit # "sys.exit(1)"
              /\ ~UserInterrupted =>
                    /\ result = "False"
                    /\ pc = "done" => Last(out) = "Device exploration failed."

\* C3 witness: connect raised and the explore program has ended normally,
\* reporting the failure.
C3_Witness ==
    /\ prog = "explore" /\ connectOutcome = "raised" /\ pc = "done"
    /\ exit = "ok" /\ result = "False"
    /\ Last(out) = "Device exploration failed."

\* C4: when nothing but reads failed, every service, characteristic and
\* (on request) descriptor of the table was visited in the library's order,
\* and each read is rendered by its outcome, a failed one as the placeholder.
C4_ReadErrorsIsolated ==
    EnumerationOver =>
        /\ Visited = ExpectedVisits(device, show_descriptors, 1)
        /\ Renderings = [i \in 1..Len(lib) |->
                            IF lib[i] = "raise" THEN "unreadable"
                            ELSE IF lib[i] = "utf8" THEN "string" ELSE "hex"]
        /\ ~enumAborted

\* C4 witness: the read of a characteristic and the read of a descriptor
\* failed, items after each were still visited, and the enumeration is over.
C4_Witness ==
    /\ EnumerationOver /\ pc = "done"
    /\ lib # <<>> /\ lib[1] = "raise"
    /\ \E i \in 1..(Len(report) - 1) : report[i].val = "unreadable" /\ report[i].d = 0
    /\ \E i \in 1..(Len(report) - 1) : report[i].val = "unreadable" /\ report[i].d > 0

\* C5: when discover raised, scan_ble_devices returned the empty list and
\* the program did not crash; and a scan that ended uninterrupted with no
\* devices printed "No BLE devices found." and no per-device line, and the
\* program ended normally.
C5_ScanNeverFails ==
    prog = "scan" =>
        /\ scanRaised =>
              /\ devices = <<>> /\ exit # "sys.exit(1)"
              /\ (pc = "done" /\ ~UserInterrupted) => Last(out) = "No BLE devices found."
        /\ (pc = "done" /\ ~UserInterrupted /\ devices = <<>>) =>
              /\ exit = "ok"
              /\ "No BLE devices found." \in Range(out)
              /\ Range(out) \cap {"Found BLE device(s)", "device row",
                                  "Additional device information:",
                                  "device detail"} = {}

\* C5 witness: discover raised and the program ended normally with the
\* message.
C5_Witness ==
    /\ prog = "scan" /\ scanRaised /\ pc = "done" /\ exit = "ok"
    /\ Last(out) = "No BLE devices found."

\* C6: write_characteristic calls write_gatt_char at most once, only when
\* connected and with the UUID and the bytes it was given; a failed write is never reported as True and, unless the user
\* interrupted, is reported as False; True means the write succeeded.
C6_SingleWrite ==
    prog = "write" =>
        /\ writeCalls <= 1
        /\ writeCalls = 1 =>
              /\ connectOutcome = "ok" /\ is_connected
              /\ writeArgs = <<char_uuid, value_bytes>>
        /\ writeOutcome \in {"raised", "interrupted"} => result # "True"
        /\ (writeOutcome = "raised" /\ FlowEnded /\ ~UserInterrupted) => result = "False"
        /\ result = "True" => (writeOutcome = "ok" /\ writeCalls = 1)

\* C6 witness: the write raised and the program has ended reporting failure.
C6_Witness ==
    /\ prog = "write" /\ writeOutcome = "raised" /\ pc = "done"
    /\ writeCalls = 1 /\ result = "False"
    /\ Last(out) = "Write operation failed."

\* C7 as stated: in hex mode parse_value accepts exactly the even-length
\* strings of hex digits, and hex-encoding its bytes restores the string up
\* to letter case.
C7_StrictHexRoundTrip ==
    /\ HexAccepted => (StrictHex(value_str) /\ HexEncode(value_bytes) = LowerStr(value_str))
    /\ (HexRejected /\ hex_mode) => ~StrictHex(value_str)

\* C7 amended: in hex mode parse_value accepts exactly the strings made of
\* pairs of hex digits with whitespace before, between or after the pairs,
\* and hex-encoding its bytes restores the string up to letter case once
\* the whitespace is removed.
C7_HexRoundTripModuloWhitespace ==
    /\ HexAccepted =>
          /\ HexPairs(value_str)
          /\ HexEncode(value_bytes)
               = LowerStr(SelectSeq(value_str, LAMBDA c : c \notin HexWhitespace))
    /\ (HexRejected /\ hex_mode) => ~HexPairs(value_str)

\* C7 witness: a value of two bytes with whitespace between the pairs was
\* accepted.
C7_Witness ==
    /\ HexAccepted /\ Len(value_bytes) = 2
    /\ \E i \in 2..(Len(value_str) - 1) :
          /\ value_str[i] \in HexWhitespace
          /\ IsHexDigit(value_str[i - 1])
          /\ \E j \in (i + 1)..Len(value_str) : IsHexDigit(value_str[j])

\* C8: a program prints the address error only for an address whose length
\* without ':' and '-' is not 12, and then ends without a connect and
\* without a crash; a run that ended normally printed it for every such
\* address and connected for every other address, whatever its characters
\* are; the connection gets the address as given.
C8_AddressCheck ==
    LET stripped == Cardinality({i \in DOMAIN mac_address : mac_address[i] \notin Separators})
    IN  prog \in {"explore", "write"} =>
           /\ AddressRejected =>
                 /\ stripped # MacLen
                 /\ pc = "done" /\ exit # "sys.exit(1)" /\ connectCalls = 0
           /\ (pc = "done" /\ exit = "ok") =>
                 /\ stripped # MacLen => AddressRejected
                 /\ stripped = MacLen => connectCalls = 1
           /\ connectCalls > 0 => (stripped = MacLen /\ connectArg = mac_address)

\* C8 witness: twelve non-hex characters grouped by '-' were accepted and
\* handed to the connection with their separators.
C8_Witness ==
    /\ prog = "write" /\ connectCalls = 1
    /\ \A i \in DOMAIN mac_address : ~IsHexDigit(mac_address[i])
    /\ Len(connectArg) > MacLen

\* C9 as stated: the timeout handed to discover is positive, is the argument
\* when it parses as an integer above zero and 10 otherwise, and the
\* fallback warning was printed whenever the argument is absent, not an
\* integer or not positive.
C9_FallbackAlwaysWarns ==
    (prog = "scan" /\ discoverCalls > 0) =>
        LET n == ParseInt(argv1)
            given == has_arg /\ n.ok /\ n.val > 0
        IN  /\ discoverTimeout > 0
            /\ discoverTimeout = (IF given THEN n.val ELSE DefaultScanTime)
            /\ ~given => warned

\* C9 amended: as above, but the warning is printed exactly when an argument
\* is present and is not an integer or not positive; an absent argument
\* gives 10 without a warning.
C9_ScanTimePositive ==
    (prog = "scan" /\ discoverCalls > 0) =>
        LET n == ParseInt(argv1)
            given == has_arg /\ n.ok /\ n.val > 0
        IN  /\ discoverTimeout > 0
            /\ discoverTimeout = (IF given THEN n.val ELSE DefaultScanTime)
            /\ warned <=> (has_arg /\ ~given)
            /\ warned <=> "Using default scan time of 10 seconds" \in Range(out)

\* C9 witness: an integer argument that is not positive: discover got 10
\* after the warning.
C9_Witness ==
    /\ prog = "scan" /\ discoverCalls = 1
    /\ has_arg /\ ParseInt(argv1).ok /\ ParseInt(argv1).val < 0
    /\ discoverTimeout = DefaultScanTime /\ warned

\* C10 as stated: once connected with is_connected true, connect_and_explore
\* returns True whatever Exception enumeration met (the outer except caught
\* it, the rest was skipped and the block is left by return True), and main
\* reports success; runs in which the user interrupted, the body or later,
\* are set aside.
C10_ExploreAlwaysSucceeds ==
    (prog = "explore" /\ connectOutcome = "ok" /\ is_connected) =>
        /\ enumFault <=> enumAborted
        /\ (enumAborted /\ pending # "interrupt") => pending = "return True"
        /\ (FlowEnded /\ ~UserInterrupted /\ pending # "interrupt") =>
              /\ result = "True"
              /\ pc = "done" => Last(out) = "Device exploration completed successfully."

\* C10 amended: as above, provided disconnect does not raise as the block is
\* left; when it does, connect_and_explore returns False and main reports
\* the failure, whatever enumeration met.
C10_ExploreSucceedsDespiteErrors ==
    (prog = "explore" /\ connectOutcome = "ok" /\ is_connected) =>
        /\ enumFault <=> enumAborted
        /\ (enumAborted /\ pending # "interrupt") => pending = "return True"
        /\ (FlowEnded /\ ~UserInterrupted) =>
              /\ result = (IF disconnectRaised THEN "False" ELSE "True")
              /\ pc = "done" =>
                    Last(out) = (IF disconnectRaised THEN "Device exploration failed."
                                 ELSE "Device exploration completed successfully.")

\* C10 witness: an attribute read after an item's header raised, the rest
\* of the enumeration was skipped, and the program has reported success.
C10_Witness ==
    /\ prog = "explore" /\ enumAborted /\ pc = "done" /\ result = "True"
    /\ report # <<>> /\ Last(report).kind \in {"service", "char", "descriptor"}
    /\ Len(report) < Len(ExpectedVisits(device, show_descriptors, 1))
    /\ Last(out) = "Device exploration completed successfully."

====
